---- MODULE Spec2Model ----
(***************************************************************************)
(* genalloc: generational allocations (src/src/lib.rs).                    *)
(*                                                                         *)
(* Span  = Vec<Alloc>              the allocation scope ("Arena")          *)
(* Alloc = { ptr: &'static RefCell<Option<Box<dyn Any>>>, gen: u32 }       *)
(*         a Copy record: the generation travels BY VALUE with every copy  *)
(* Ptr<T> = { alloc: Alloc, gen: u32 }   the handle ("Handle"), Copy       *)
(* RECYCLED_ALLOCS = thread_local RefCell<Vec<Alloc>>   the pool           *)
(*                                                                         *)
(* Every public operation is one action.  A panic is an outcome of the     *)
(* operation; the action leaves the state that the unwinding leaves.  A    *)
(* read() or write() that panics changes nothing (the borrow it may have   *)
(* taken is released by the unwinding), so it is a stuttering step.        *)
(***************************************************************************)
EXTENDS Integers, Sequences, FiniteSets, TLC

\* ---------------------------------------------------------------- bounds
MaxSpans  == 2      \* Span::new calls in one run
MaxPtrs   == 2      \* Ptr values the program holds (alloc results and copies)
MaxGuards == 2      \* Ref / RefMut guards held at once
GenBits   == 1      \* width of the generation counter (u32 in the source, scaled)

\* ------------------------------------------------------------ the domain
\* RECYCLED_ALLOCS is a thread_local: one pool per thread.
Threads == {"X", "Y"}

\* The T of alloc<T: 'static>.  "A" and "B" are plain types; "R" is a type
\* whose Drop impl calls Span::alloc: lib.rs:45 drops the payload, and so runs
\* that impl, while Span::drop holds the pool's RefCell mutably borrowed.
Types == {"A", "B", "R"}
PlainTypes == {"A", "B"}

\* Payloads: two distinguishable values of type "A"; "B" and "R" are unit-like.
Vals == {1, 2}
ValsOf(ty) == IF ty = "A" THEN Vals ELSE {1}

GenMod == 2 ^ GenBits

\* Option<Box<dyn Any>>::None
None == [ty |-> "none", val |-> 0]

\* Box::new(v) as Box<dyn Any>: the payload with its TypeId.
BoxNewZero(ty, v) == [ty |-> ty, val |-> 0]
BoxNewAny(ty, v) == [ty |-> "A", val |-> v]
BoxNew(ty, v) == [ty |-> ty, val |-> v]

\* impl Default for Alloc: a leaked, empty RefCell, nobody borrowing it.
\* thread is a ghost field: the thread that ran Box::leak.
NewCell(t) == [value |-> None, borrow |-> 0, thread |-> t]

\* A Span after its drop: the Vec is freed.
Dropped == [thread |-> "none", live |-> FALSE, allocs |-> <<>>]

VARIABLES
    cells,      \* Seq: the leaked RefCells in creation order; borrow is the
                \* RefCell flag (0 unused, n > 0: n Ref out, -1: a RefMut out)
    spans,      \* Seq of [thread, live, allocs]: every Span made so far
    recycled,   \* [Threads -> Seq(Alloc)]: RECYCLED_ALLOCS of each thread
    ptrs,       \* Seq of the Ptr values the program holds; span (the Span
                \* whose alloc returned it) and from (the Ptr it was copied
                \* from, 0 if none) are ghost fields
    guards,     \* Seq aligned with ptrs: the guards obtained through ptrs[h]
                \* and not yet dropped (n > 0: n Ref, -1: a RefMut)
    peak        \* ghost: [Threads -> Nat], the largest number of Allocs the
                \* live Spans of the thread held at once

vars == <<cells, spans, recycled, ptrs, guards, peak>>

Init ==
    /\ cells = <<>>
    /\ spans = <<>>
    /\ recycled = [t \in Threads |-> <<>>]
    /\ ptrs = <<>>
    /\ guards = <<>>
    /\ peak = [t \in Threads |-> 0]

\* ------------------------------------------------------- RefCell borrows
\* RefCell::borrow succeeds unless a RefMut is out.
TryBorrowAlways(flag) == TRUE
TryBorrow(flag) == flag >= 0

\* RefCell::borrow_mut (and RefCell::take) succeed only on an unused cell.
TryBorrowMutLax(flag) == flag >= 0
TryBorrowMut(flag) == flag = 0

\* RECYCLED_ALLOCS.with(|recycled| recycled.borrow_mut()): the pool is itself
\* a RefCell; busy = a borrow_mut of it is live further up the call stack.
PoolBorrowMut(busy) == IF busy THEN "pool_borrowed" ELSE "ok"

\* The thread_local lookup: each thread sees its own RECYCLED_ALLOCS.
PoolOfShared(t) == "X"
PoolOf(t) == t

\* alloc.gen += 1 on the counter
GenInc(g) == (g + 1) % GenMod
GenOverflows(g) == g = GenMod - 1

\* RefCell::take on an unused cell: the value moves out, None stays behind.
TakeKeep(c) == c
Take(c) == [c EXCEPT !.value = None]

\* ------------------------------------------------------------------- Ptr
\* impl Clone for Ptr: *self.
CloneOtherGen(p) == [p EXCEPT !.gen = GenInc(p.gen)]
Clone(p) == p

\* Ptr::read / Ptr::write up to the guard they return: the panic, or "ok".
\*   assert_eq!(self.gen, self.alloc.gen)                 -> "stale"
\*   self.alloc.ptr.borrow() / borrow_mut()               -> "borrow_conflict"
\*   filter_map(.., as_ref()?.downcast_ref()).unwrap()    -> "type_mismatch"
Access(p, cs, kind) ==
    LET c == cs[p.alloc.ptr] IN
    IF p.gen # p.alloc.gen THEN "stale"
    ELSE IF kind = "read" /\ ~TryBorrow(c.borrow) THEN "borrow_conflict"
    ELSE IF kind = "write" /\ ~TryBorrowMut(c.borrow) THEN "borrow_conflict"
    ELSE IF c.value = None \/ c.value.ty # p.ty THEN "type_mismatch"
    ELSE "ok"

ReadOutcome(h)  == Access(ptrs[h], cells, "read")
WriteOutcome(h) == Access(ptrs[h], cells, "write")

\* what the guard returned by a successful read() dereferences to
ReadValue(h) == cells[ptrs[h].alloc.ptr].value.val

\* ------------------------------------------------------------ helpers
RECURSIVE SumTo(_, _)
SumTo(q, n) == IF n = 0 THEN 0 ELSE SumTo(q, n - 1) + (IF q[n] < 0 THEN 1 ELSE q[n])
\* number of guards held
NumGuards(q) == SumTo(q, Len(q))

RECURSIVE SumLens(_, _, _)
\* number of Allocs held by the live Spans of thread t, among ss[1..n]
SumLens(ss, n, t) ==
    IF n = 0 THEN 0
    ELSE SumLens(ss, n - 1, t)
         + (IF ss[n].live /\ ss[n].thread = t THEN Len(ss[n].allocs) ELSE 0)

CheckedOut(ss, t) == SumLens(ss, Len(ss), t)

\* ------------------------------------------------------------ Span::new
NewSpan(t) ==
    /\ Len(spans) < MaxSpans
    /\ spans = <<>> => t = "X"         \* the program starts on thread X
    /\ spans' = Append(spans, [thread |-> t, live |-> TRUE, allocs |-> <<>>])
    /\ UNCHANGED <<cells, recycled, ptrs, guards, peak>>

\* ---------------------------------------------------------- Span::alloc
\* lib.rs:32-36: Ptr { gen: alloc.gen, alloc, _marker }, a Ptr<ty> returned by
\* Span s: the Alloc is copied into the Ptr, its gen field with it.
PtrNewNextGen(a, ty, s) ==
    [alloc |-> a, gen |-> GenInc(a.gen), ty |-> ty, span |-> s, from |-> 0]
PtrNew(a, ty, s) ==
    [alloc |-> a, gen |-> a.gen, ty |-> ty, span |-> s, from |-> 0]

\* lib.rs:27-29: pop the pool, else Alloc::default()
TakeOrCreate(pool, cs, t) ==
    IF pool = <<>>
    THEN [alloc |-> [ptr |-> Len(cs) + 1, gen |-> 0],
          pool  |-> pool,
          cells |-> Append(cs, NewCell(t)),
          fresh |-> TRUE]
    ELSE [alloc |-> pool[Len(pool)],
          pool  |-> SubSeq(pool, 1, Len(pool) - 1),
          cells |-> cs,
          fresh |-> FALSE]

\* The whole of Span::alloc(v: ty) on Span s, called with the pool's RefCell
\* in state busy: the panic or "ok", and the state it leaves.
AllocResult(s, ty, v, busy) ==
    LET t   == spans[s].thread
        got == TakeOrCreate(recycled[PoolOf(t)], cells, t)
        a   == got.alloc
        ok  == TryBorrowMut(got.cells[a.ptr].borrow)
    IN
    IF PoolBorrowMut(busy) # "ok"
    THEN [outcome |-> PoolBorrowMut(busy), cells |-> cells,
          pool |-> recycled[PoolOf(t)], allocs |-> spans[s].allocs,
          ptr |-> <<>>]
    ELSE [outcome |-> IF ok THEN "ok" ELSE "borrow_conflict",
          cells   |-> IF ok THEN [got.cells EXCEPT ![a.ptr].value = BoxNew(ty, v)]
                            ELSE got.cells,
          pool    |-> got.pool,
          allocs  |-> Append(spans[s].allocs, a),
          ptr     |-> IF ok THEN <<PtrNew(a, ty, s)>> ELSE <<>>]

SpanAlloc(s, ty, v) ==
    /\ s \in 1..Len(spans)
    /\ spans[s].live
    /\ Len(ptrs) < MaxPtrs
    /\ LET t  == spans[s].thread
           r  == AllocResult(s, ty, v, FALSE)
           ss == [spans EXCEPT ![s].allocs = r.allocs]
       IN
       /\ cells' = r.cells
       /\ recycled' = [recycled EXCEPT ![PoolOf(t)] = r.pool]
       /\ spans' = ss
       /\ ptrs' = ptrs \o r.ptr
       /\ guards' = guards \o [i \in 1..Len(r.ptr) |-> 0]
       /\ peak' = [peak EXCEPT ![t] = IF CheckedOut(ss, t) > @
                                      THEN CheckedOut(ss, t) ELSE @]

\* -------------------------------------------------- impl Drop for Span
\* The cleanup of a payload dropped at lib.rs:45, run while Span::drop holds
\* the pool's borrow_mut: a payload of type "R" calls Span::alloc, whose first
\* statement borrows the pool; plain payloads (and None) do nothing.
RunDrop(value, busy) ==
    IF value.ty = "R" THEN PoolBorrowMut(busy) ELSE "none"

RECURSIVE DropLoop(_, _, _, _, _)
\* `for alloc in &mut self.0` from index i on; a panic ends the loop where it
\* is raised and leaves what was done so far.  checks: the build has
\* overflow-checks on.  nested: how the Span::alloc called by a payload's
\* cleanup ended ("none": no such call).
DropLoop(allocs, i, cs, pool, checks) ==
    IF i > Len(allocs)
    THEN [cells |-> cs, pool |-> pool, outcome |-> "ok", nested |-> "none"]
    ELSE LET a   == allocs[i]
             c   == cs[a.ptr]
             cs1 == [cs EXCEPT ![a.ptr] = Take(@)]
             d   == RunDrop(c.value, TRUE)
         IN
         IF ~TryBorrowMut(c.borrow)                   \* alloc.ptr.take()
         THEN [cells |-> cs, pool |-> pool,
               outcome |-> "borrow_conflict", nested |-> "none"]
         ELSE IF d = "pool_borrowed"                  \* let _ = ..: T::drop
         THEN [cells |-> cs1, pool |-> pool,
               outcome |-> "payload_drop_panicked", nested |-> d]
         ELSE IF GenOverflows(a.gen) /\ checks        \* alloc.gen += 1
         THEN [cells |-> cs1, pool |-> pool,
               outcome |-> "overflow", nested |-> "none"]
         ELSE DropLoop(allocs, i + 1, cs1,
                       Append(pool, [ptr |-> a.ptr, gen |-> GenInc(a.gen)]),
                       checks)

\* The whole of drop(span s) in a build with overflow-checks = checks.
DropResult(s, checks) ==
    DropLoop(spans[s].allocs, 1, cells, recycled[PoolOf(spans[s].thread)], checks)

DropSpan(s) ==
    /\ s \in 1..Len(spans)
    /\ spans[s].live
    /\ \E checks \in BOOLEAN :
       LET r == DropResult(s, checks) IN
       /\ cells' = r.cells
       /\ recycled' = [recycled EXCEPT ![PoolOf(spans[s].thread)] = r.pool]
       /\ spans' = [spans EXCEPT ![s] = Dropped]
    /\ UNCHANGED <<ptrs, guards, peak>>

\* ------------------------------------------------- Ptr::read, Ptr::write
\* The RefCell flag once read() / write() has returned or unwound, o being its
\* outcome.  "ok": the guard is returned and holds the borrow.  "stale" and
\* "borrow_conflict": no borrow was taken.  "type_mismatch": filter_map hands
\* the borrow of lib.rs:73 / 79 back in its Err, and the unwinding of unwrap()
\* drops it.
FlagAfterLeak(flag, kind, o) ==
    IF o \in {"ok", "type_mismatch"}
    THEN (IF kind = "read" THEN flag + 1 ELSE -1)
    ELSE flag
FlagAfter(flag, kind, o) ==
    IF o = "ok"
    THEN (IF kind = "read" THEN flag + 1 ELSE -1)
    ELSE flag

Read(h) ==
    /\ h \in 1..Len(ptrs)
    /\ LET o == ReadOutcome(h)
           p == ptrs[h].alloc.ptr
       IN
       /\ o = "ok" => NumGuards(guards) < MaxGuards
       /\ cells' = [cells EXCEPT ![p].borrow = FlagAfter(@, "read", o)]
       /\ guards' = IF o = "ok" THEN [guards EXCEPT ![h] = @ + 1] ELSE guards
    /\ UNCHANGED <<spans, recycled, ptrs, peak>>

Write(h) ==
    /\ h \in 1..Len(ptrs)
    /\ LET o == WriteOutcome(h)
           p == ptrs[h].alloc.ptr
       IN
       /\ o = "ok" => NumGuards(guards) < MaxGuards
       /\ cells' = [cells EXCEPT ![p].borrow = FlagAfter(@, "write", o)]
       /\ guards' = IF o = "ok" THEN [guards EXCEPT ![h] = -1] ELSE guards
    /\ UNCHANGED <<spans, recycled, ptrs, peak>>

\* `*guard = v` through the RefMut<'static, T> obtained from ptrs[h]
Store(h, v) ==
    /\ h \in 1..Len(ptrs)
    /\ guards[h] = -1
    /\ v \in ValsOf(ptrs[h].ty)
    /\ LET p == ptrs[h].alloc.ptr IN
       /\ cells[p].value.val # v
       /\ cells' = [cells EXCEPT ![p].value.val = v]
    /\ UNCHANGED <<spans, recycled, ptrs, guards, peak>>

\* dropping a Ref, or the RefMut, obtained from ptrs[h]
Release(h) ==
    /\ h \in 1..Len(ptrs)
    /\ guards[h] # 0
    /\ LET p == ptrs[h].alloc.ptr IN
       cells' = [cells EXCEPT ![p].borrow = IF guards[h] = -1 THEN 0 ELSE @ - 1]
    /\ guards' = [guards EXCEPT ![h] = IF @ = -1 THEN 0 ELSE @ - 1]
    /\ UNCHANGED <<spans, recycled, ptrs, peak>>

\* let ptr_2 = ptr_1;
CopyBorrowing(h) ==
    /\ h \in 1..Len(ptrs)
    /\ Len(ptrs) < MaxPtrs
    /\ ptrs' = Append(ptrs, [Clone(ptrs[h]) EXCEPT !.from = h])
    /\ guards' = Append(guards, 0)
    /\ cells' = [cells EXCEPT ![ptrs[h].alloc.ptr].borrow = @ + 1]
    /\ UNCHANGED <<spans, recycled, peak>>

Copy(h) ==
    /\ h \in 1..Len(ptrs)
    /\ Len(ptrs) < MaxPtrs
    /\ ptrs' = Append(ptrs, [Clone(ptrs[h]) EXCEPT !.from = h])
    /\ guards' = Append(guards, 0)
    /\ UNCHANGED <<cells, spans, recycled, peak>>

\* The calls that take no payload and start no thread.
Calls ==
    \/ \E s \in 1..MaxSpans : DropSpan(s)
    \/ \E h \in 1..MaxPtrs : Read(h)
    \/ \E h \in 1..MaxPtrs : Write(h)
    \/ \E h \in 1..MaxPtrs, v \in Vals : Store(h, v)
    \/ \E h \in 1..MaxPtrs : Release(h)
    \/ \E h \in 1..MaxPtrs : Copy(h)

\* A single-threaded program storing plain payloads.
Next ==
    \/ NewSpan("X")
    \/ \E s \in 1..MaxSpans, ty \in PlainTypes :
           \E v \in ValsOf(ty) : SpanAlloc(s, ty, v)
    \/ Calls

Spec == Init /\ [][Next]_vars

\* Spans on two threads, payloads of one plain type.
NextThreads ==
    \/ \E t \in Threads : NewSpan(t)
    \/ \E s \in 1..MaxSpans, v \in Vals : SpanAlloc(s, "A", v)
    \/ Calls

SpecThreads == Init /\ [][NextThreads]_vars

\* Spans on two threads, every payload type, "R" included.
NextFull ==
    \/ \E t \in Threads : NewSpan(t)
    \/ \E s \in 1..MaxSpans, ty \in Types :
           \E v \in ValsOf(ty) : SpanAlloc(s, ty, v)
    \/ Calls

SpecFull == Init /\ [][NextFull]_vars

\* ================================================================ claims
Handles == 1..Len(ptrs)
SlotOf(h) == ptrs[h].alloc.ptr

\* The Span whose alloc returned ptrs[h] (or the Ptr it is a copy of) is gone.
SpanDropped(h) == ~spans[ptrs[h].span].live

\* Slot p is in the Vec of a live Span other than Span s.
HeldByLiveSpanOtherThan(p, s) ==
    \E s2 \in 1..Len(spans) :
        /\ s2 # s
        /\ spans[s2].live
        /\ \E i \in 1..Len(spans[s2].allocs) : spans[s2].allocs[i].ptr = p

\* The step drops Span s.
DropStep(s) == spans[s].live /\ ~spans'[s].live

\* C1: once the Span that returned a Ptr has been dropped, read() on that Ptr
\* panics on the generation comparison (the stale-handle fault), every time.
C1_StaleAfterDrop ==
    \A h \in Handles : SpanDropped(h) => ReadOutcome(h) = "stale"

\* C2: a Ptr<A> whose Span was dropped and whose slot a later Span has reused
\* for a payload of another type fails read() and write() with the stale-handle
\* fault (and never yields a view of the new payload).
C2_CrossTypeStale ==
    \A h \in Handles :
        ( /\ SpanDropped(h)
          /\ HeldByLiveSpanOtherThan(SlotOf(h), ptrs[h].span)
          /\ cells[SlotOf(h)].value # None
          /\ cells[SlotOf(h)].value.ty # ptrs[h].ty )
        => /\ ReadOutcome(h) = "stale"
           /\ WriteOutcome(h) = "stale"

\* C3: once the Span that returned a Ptr has been dropped, no read() or write()
\* on that Ptr ever returns a view, also after a later Span has reused the slot
\* (for a payload of the same type).
C3_PermanentlyStale ==
    \A h \in Handles :
        ( /\ SpanDropped(h)
          /\ HeldByLiveSpanOtherThan(SlotOf(h), ptrs[h].span) )
        => /\ ReadOutcome(h) # "ok"
           /\ WriteOutcome(h) # "ok"

\* C4: alloc(v) returns a Ptr, and read() on it right after the alloc succeeds
\* and yields v, whether the slot is new or reused.
C4_RoundTrip ==
    [][ \A s \in 1..MaxSpans, ty \in Types, v \in Vals :
            SpanAlloc(s, ty, v) =>
                /\ Len(ptrs') = Len(ptrs) + 1
                /\ (ReadOutcome(Len(ptrs)))' = "ok"
                /\ (ReadValue(Len(ptrs)))' = v ]_vars

\* a Ptr returned by alloc for a reused slot, its Span alive, with a Ref
\* obtained through it held
C4_Witness ==
    \E h \in Handles :
        /\ ptrs[h].from = 0
        /\ ptrs[h].alloc.gen > 0
        /\ ~SpanDropped(h)
        /\ guards[h] > 0
        /\ ReadValue(h) = 2

\* C5: while a RefMut obtained through a Ptr is held, read() and write() through
\* every Ptr of the same slot panic with the borrow conflict; when the RefMut is
\* dropped, read() through that Ptr succeeds and yields the payload as stored.
C5_BorrowExclusivity ==
    /\ [](\A h \in Handles : guards[h] = -1 =>
            \A k \in Handles : SlotOf(k) = SlotOf(h) =>
                /\ ReadOutcome(k) = "borrow_conflict"
                /\ WriteOutcome(k) = "borrow_conflict")
    /\ [][ \A h \in Handles : (guards[h] = -1 /\ guards'[h] = 0) =>
                /\ (ReadOutcome(h))' = "ok"
                /\ (ReadValue(h))' = ReadValue(h) ]_vars

\* the RefMut of a live Ptr is held, the payload was changed through it, and
\* read() through a copy of the Ptr panics with the borrow conflict
C5_Witness ==
    \E h \in Handles, k \in Handles :
        /\ ptrs[k].from = h
        /\ ~SpanDropped(h)
        /\ guards[h] = -1
        /\ ReadValue(h) = 2
        /\ ReadOutcome(k) = "borrow_conflict"

\* C6: a copy of a Ptr names the same slot with the same captured generation;
\* read() through the Ptr and through the copy end alike, and both succeed,
\* also while the other's Ref is held, on the same payload.
C6_CopyIndependence ==
    \A k \in Handles : ptrs[k].from # 0 =>
        LET h == ptrs[k].from IN
        /\ ptrs[k].alloc = ptrs[h].alloc
        /\ ptrs[k].gen = ptrs[h].gen
        /\ ptrs[k].ty = ptrs[h].ty
        /\ ReadOutcome(k) = ReadOutcome(h)
        /\ (~SpanDropped(h) /\ cells[SlotOf(h)].borrow >= 0) =>
                /\ ReadOutcome(h) = "ok"
                /\ ReadOutcome(k) = "ok"
                /\ ReadValue(k) = ReadValue(h)

\* a Ref obtained through a Ptr and a Ref obtained through its copy, both held
C6_Witness ==
    \E k \in Handles :
        /\ ptrs[k].from # 0
        /\ guards[k] > 0
        /\ guards[ptrs[k].from] > 0
        /\ cells[SlotOf(k)].borrow = 2

\* number of RefCells leaked by thread t
Created(t) == Cardinality({p \in 1..Len(cells) : cells[p].thread = t})

\* C7: a new slot is made only when the thread's pool is empty, so the number
\* of slots ever made on a thread equals the peak number of slots checked out
\* on it at once (1 for any number of alloc-one-value-and-drop cycles).
C7_CreatedEqualsPeak ==
    \A t \in Threads : Created(t) = peak[t]

\* C8: dropping a Span never panics, whatever guards are held, and afterwards
\* every slot the Span owned is cleared, its generation is one more, and it is
\* in the pool of the Span's thread.
C8_DropNeverFails ==
    [][ \A s \in 1..Len(spans) : DropStep(s) =>
            \A i \in 1..Len(spans[s].allocs) :
                LET a == spans[s].allocs[i] IN
                /\ cells'[a.ptr].value = None
                /\ \E j \in 1..Len(recycled'[spans[s].thread]) :
                       recycled'[spans[s].thread][j] =
                           [ptr |-> a.ptr, gen |-> GenInc(a.gen)] ]_vars

\* C9: a call of Span::alloc never panics, in whatever state it is made (from
\* the program, or from a payload's cleanup run by a Span's drop), and adds one
\* Alloc to the Span and returns a Ptr.
C9_AllocNeverFails ==
    /\ [](\A s \in 1..Len(spans) : spans[s].live =>
            \A ty \in Types, v \in Vals :
                /\ AllocResult(s, ty, v, FALSE).outcome = "ok"
                /\ Len(AllocResult(s, ty, v, FALSE).allocs) = Len(spans[s].allocs) + 1
                /\ Len(AllocResult(s, ty, v, FALSE).ptr) = 1)
    /\ [][ \A s \in 1..Len(spans), checks \in BOOLEAN :
               DropStep(s) => DropResult(s, checks).nested # "pool_borrowed" ]_vars

\* C10: every slot in a thread's pool, and every slot alloc handed to a Span
\* of a thread, was made on that thread.
C10_PerThreadPools ==
    /\ \A t \in Threads : \A i \in 1..Len(recycled[t]) :
           cells[recycled[t][i].ptr].thread = t
    /\ \A s \in 1..Len(spans) : \A i \in 1..Len(spans[s].allocs) :
           cells[spans[s].allocs[i].ptr].thread = spans[s].thread

\* thread X has recycled a slot, and an alloc on thread Y got a new slot
C10_Witness ==
    /\ recycled["X"] # <<>>
    /\ \E s \in 1..Len(spans) :
           /\ spans[s].live
           /\ spans[s].thread = "Y"
           /\ spans[s].allocs # <<>>

\* -------------------------------------------------- views held on a slot
RECURSIVE RefsUpTo(_, _)
RefsUpTo(p, n) ==
    IF n = 0 THEN 0
    ELSE RefsUpTo(p, n - 1)
         + (IF SlotOf(n) = p /\ guards[n] > 0 THEN guards[n] ELSE 0)

\* number of Ref guards (read-views) held on slot p, through any Ptr
ReadViews(p) == RefsUpTo(p, Len(ptrs))

\* number of RefMut guards (write-views) held on slot p
WriteViews(p) == Cardinality({h \in Handles : SlotOf(h) = p /\ guards[h] = -1})

\* C11: every slot has no view, or one RefMut and no Ref, or one or more Refs
\* and no RefMut (and the RefCell flag says so); while only Refs are out,
\* read() through no Ptr of the slot hits a borrow conflict and read() through a
\* Ptr of a live Span succeeds; while any Ref or RefMut is out, write() through
\* every Ptr of the slot faults (with the borrow conflict, for a live Span).
C11_ReadersWriter ==
    \A p \in 1..Len(cells) :
        /\ \/ ReadViews(p) = 0 /\ WriteViews(p) = 0 /\ cells[p].borrow = 0
           \/ ReadViews(p) = 0 /\ WriteViews(p) = 1 /\ cells[p].borrow = -1
           \/ ReadViews(p) >= 1 /\ WriteViews(p) = 0
                /\ cells[p].borrow = ReadViews(p)
        /\ \A h \in Handles : SlotOf(h) = p =>
              /\ ReadViews(p) >= 1 =>
                    /\ ReadOutcome(h) # "borrow_conflict"
                    /\ ~SpanDropped(h) => ReadOutcome(h) = "ok"
              /\ (ReadViews(p) >= 1 \/ WriteViews(p) = 1) =>
                    /\ WriteOutcome(h) # "ok"
                    /\ ~SpanDropped(h) => WriteOutcome(h) = "borrow_conflict"

\* a Ref is held through the Ptr of a live Span on a reused slot, and write()
\* through the Ptr an earlier Span returned for that slot faults
C11_Witness ==
    \E h \in Handles, k \in Handles :
        /\ SlotOf(k) = SlotOf(h)
        /\ SpanDropped(k)
        /\ ~SpanDropped(h)
        /\ guards[h] > 0
        /\ ReadViews(SlotOf(h)) = 1
        /\ WriteOutcome(k) = "borrow_conflict"

\* C12: every slot in a thread's pool holds None and has no Ref and no RefMut
\* out.
C12_PoolSlotsEmpty ==
    \A t \in Threads : \A i \in 1..Len(recycled[t]) :
        LET p == recycled[t][i].ptr IN
        /\ cells[p].value = None
        /\ cells[p].borrow = 0
        /\ ReadViews(p) = 0
        /\ WriteViews(p) = 0

\* a slot that held a payload and was recycled is in the pool, the program
\* still holds the Ptr to it, and a guard is held on another slot
C12_Witness ==
    \E t \in Threads : \E i \in 1..Len(recycled[t]) :
        /\ recycled[t][i].gen = 1
        /\ \E h \in Handles : SlotOf(h) = recycled[t][i].ptr
        /\ \E k \in Handles : guards[k] # 0

\* Slot p is in the Vec of a live Span.
HeldByLiveSpan(p) == HeldByLiveSpanOtherThan(p, 0)

\* C13: a slot holds Some(value) only while it is in the Vec of a live Span; no
\* slot holds a value after the Span that checked it out was dropped.
C13_OccupiedOnlyWhileCheckedOut ==
    \A p \in 1..Len(cells) : cells[p].value # None => HeldByLiveSpan(p)

\* the places <<s, i>> where slot p sits in the Vec of a live Span
PlacesInSpans(p) ==
    {x \in UNION {{<<s, i>> : i \in 1..Len(spans[s].allocs)} : s \in 1..Len(spans)} :
        spans[x[1]].live /\ spans[x[1]].allocs[x[2]].ptr = p}

\* the places <<t, i>> where slot p sits in a pool
PlacesInPools(p) ==
    {x \in UNION {{<<t, i>> : i \in 1..Len(recycled[t])} : t \in Threads} :
        recycled[x[1]][x[2]].ptr = p}

\* C14: every slot ever made is in exactly one place: once in the Vec of one
\* live Span, or once in the pool.
C14_ExclusiveCheckout ==
    \A p \in 1..Len(cells) :
        Cardinality(PlacesInSpans(p)) + Cardinality(PlacesInPools(p)) = 1

\* the generations recorded for slot p in the Vecs of live Spans and in pools
GensOf(p) ==
    {spans[x[1]].allocs[x[2]].gen : x \in PlacesInSpans(p)}
        \cup {recycled[x[1]][x[2]].gen : x \in PlacesInPools(p)}

\* ptrs[h] was returned by the k-th alloc through its slot: k
AllocIndex(h) ==
    Cardinality({j \in 1..h : ptrs[j].from = 0 /\ SlotOf(j) = SlotOf(h)})

\* C15: a new slot has generation 0; the drop of a Span adds exactly 1 to the
\* generation of every slot the Span owns (below the overflow bound); no other
\* step changes a recorded generation; the Ptr returned by the k-th alloc
\* through a slot captures generation k - 1, so the Ptrs returned for one slot
\* by different allocs capture different generations.
C15_GenerationProtocol ==
    /\ [](\A h \in Handles : (ptrs[h].from = 0 /\ AllocIndex(h) <= GenMod) =>
            /\ ptrs[h].gen = AllocIndex(h) - 1
            /\ \A k \in Handles :
                   (k # h /\ ptrs[k].from = 0 /\ SlotOf(k) = SlotOf(h))
                       => ptrs[k].gen # ptrs[h].gen)
    /\ [][ \A s \in 1..Len(spans) : DropStep(s) =>
               \A p \in 1..Len(cells), g \in 0..(GenMod - 2) :
                   (\E i \in 1..Len(spans[s].allocs) :
                        spans[s].allocs[i] = [ptr |-> p, gen |-> g])
                       => (GensOf(p))' = {g + 1} ]_vars
    /\ [][ (\A s \in 1..Len(spans) : ~DropStep(s)) =>
               \A p \in 1..Len(cells) : (GensOf(p))' = GensOf(p) ]_vars

\* no guard is held on any slot of Span s
Unborrowed(s) ==
    \A i \in 1..Len(spans[s].allocs) : cells[spans[s].allocs[i].ptr].borrow = 0

\* C16: the counter has GenBits bits; the drop of a Span that owns a slot at
\* generation 2^GenBits - 1 (no guard held on the Span's slots) completes and
\* puts the slot in the pool at generation 0, the generation captured by the
\* Ptr of the first alloc through the slot.
C16_GenerationWraps ==
    [][ \A s \in 1..Len(spans) : (DropStep(s) /\ Unborrowed(s)) =>
            \A p \in 1..Len(cells) :
                (\E i \in 1..Len(spans[s].allocs) :
                     spans[s].allocs[i] = [ptr |-> p, gen |-> GenMod - 1])
                    => /\ (GensOf(p))' = {0}
                       /\ \A h \in Handles :
                              (SlotOf(h) = p /\ AllocIndex(h) = 1)
                                  => ptrs[h].gen \in (GensOf(p))' ]_vars

\* C17: a pool grows only in a step that drops a Span and shrinks only in a
\* step where alloc adds a slot to a live Span; read(), write(), dropping a
\* guard and copying a Ptr leave the pools, every Span's Vec and every recorded
\* generation as they were, and copying a Ptr also leaves every slot's value
\* and borrow flag and every guard held as they were.
C17_Frame ==
    [][ /\ \A t \in Threads :
              /\ Len(recycled'[t]) > Len(recycled[t]) =>
                    \E s \in 1..Len(spans) : DropStep(s)
              /\ Len(recycled'[t]) < Len(recycled[t]) =>
                    \E s \in 1..Len(spans) :
                        /\ spans[s].live /\ spans'[s].live
                        /\ Len(spans'[s].allocs) = Len(spans[s].allocs) + 1
        /\ \A h \in 1..MaxPtrs :
              /\ (Read(h) \/ Write(h) \/ Release(h)) =>
                    /\ recycled' = recycled
                    /\ spans' = spans
                    /\ ptrs' = ptrs
                    /\ \A p \in 1..Len(cells) :
                           /\ (GensOf(p))' = GensOf(p)
                           /\ cells'[p].value = cells[p].value
              /\ Copy(h) =>
                    /\ recycled' = recycled
                    /\ spans' = spans
                    /\ cells' = cells
                    /\ SubSeq(ptrs', 1, Len(ptrs)) = ptrs
                    /\ SubSeq(guards', 1, Len(guards)) = guards
                    /\ guards'[Len(ptrs')] = 0
                    /\ \A p \in 1..Len(cells) :
                           /\ (GensOf(p))' = GensOf(p)
                           /\ (ReadViews(p))' = ReadViews(p)
                           /\ (WriteViews(p))' = WriteViews(p) ]_vars

\* a Ptr of a live Span was copied, and one Ref is held, through the original
C17_Witness ==
    \E k \in Handles :
        /\ ptrs[k].from # 0
        /\ ~SpanDropped(k)
        /\ guards[k] = 0
        /\ guards[ptrs[k].from] = 1
        /\ cells[SlotOf(k)].borrow = 1

\* C18: a read() or write() that faults (stale, borrow conflict, type mismatch
\* or empty slot) changes nothing: values, generations, borrow flags and guards
\* held, pools and Spans are as before the call, and no borrow stays on the
\* slot.
C18_FaultsChangeNothing ==
    [][ \A h \in 1..MaxPtrs :
            /\ (Read(h) /\ ReadOutcome(h) # "ok") => UNCHANGED vars
            /\ (Write(h) /\ WriteOutcome(h) # "ok") => UNCHANGED vars ]_vars

\* write() through the Ptr of a live Span faults with the borrow conflict (a
\* Ref is held through it), and read() through the Ptr an earlier Span returned
\* for the slot faults with the type mismatch
C18_Witness ==
    \E h \in Handles, k \in Handles :
        /\ guards[h] > 0
        /\ WriteOutcome(h) = "borrow_conflict"
        /\ SpanDropped(k)
        /\ ReadOutcome(k) = "type_mismatch"

\* C19: for every Ptr<T> whose Span has not been dropped the slot holds a
\* payload of type T; read() through it succeeds unless a RefMut is out on the
\* slot, write() through it succeeds unless a guard is out on the slot, and
\* neither faults with the stale-handle fault or the type mismatch.
C19_NoFalseFaults ==
    \A h \in Handles : ~SpanDropped(h) =>
        /\ cells[SlotOf(h)].value # None
        /\ cells[SlotOf(h)].value.ty = ptrs[h].ty
        /\ WriteViews(SlotOf(h)) = 0 => ReadOutcome(h) = "ok"
        /\ (WriteViews(SlotOf(h)) = 0 /\ ReadViews(SlotOf(h)) = 0)
               => WriteOutcome(h) = "ok"
        /\ ReadOutcome(h) \notin {"stale", "type_mismatch"}
        /\ WriteOutcome(h) \notin {"stale", "type_mismatch"}

\* a live Span reuses, for a payload of type "B", the slot of a dropped Span
\* whose Ptr<A> the program still holds, and read() through the new Ptr
\* succeeds
C19_Witness ==
    \E h \in Handles, k \in Handles :
        /\ SlotOf(k) = SlotOf(h)
        /\ SpanDropped(k) /\ ptrs[k].ty = "A"
        /\ ~SpanDropped(h) /\ ptrs[h].ty = "B"
        /\ ReadOutcome(h) = "ok"
        /\ WriteOutcome(h) = "ok"

\* C20: in every state the generation a Ptr captured (Ptr.gen) equals the
\* generation in the Alloc copy inside that Ptr (Ptr.alloc.gen), whatever was
\* allocated and dropped since, so the comparison made by read() and write()
\* never fails; the drop of a Span changes no Ptr.
C20_CapturedEqualsEmbedded ==
    /\ [](\A h \in Handles :
            /\ ptrs[h].gen = ptrs[h].alloc.gen
            /\ ReadOutcome(h) # "stale"
            /\ WriteOutcome(h) # "stale")
    /\ [][ \A s \in 1..Len(spans) : DropStep(s) => ptrs' = ptrs ]_vars

\* the program holds a Ptr whose slot was recycled: the pool's copy of the
\* Alloc carries another generation than the copy inside the Ptr
C20_Witness ==
    \E h \in Handles, t \in Threads : \E i \in 1..Len(recycled[t]) :
        /\ recycled[t][i].ptr = SlotOf(h)
        /\ recycled[t][i].gen # ptrs[h].alloc.gen
        /\ ptrs[h].gen = ptrs[h].alloc.gen

====
